---- MODULE Spec2Model ----
(***************************************************************************)
(* Block bootstrap of ABBA/BABA site-pattern counts                        *)
(* (supp_analyses/bootstrap_sequencing_errors.py).                         *)
(*                                                                         *)
(* The genotype matrix is a sequence of rows, each row a 3-tuple of        *)
(* integers; the position vector is a sequence of integers.  Row indices   *)
(* are 1-based here (numpy's index r is r+1 here); column indices inside   *)
(* the lineage lists p1_idx, p2_idx, p3_idx keep numpy's 0-based values.   *)
(* With single-member lineages the division by float(len(taxon)) divides   *)
(* by 1.0 and every value is an integer-valued double far below 2^53, so   *)
(* the arithmetic is exact and is modelled over the integers.              *)
(***************************************************************************)
EXTENDS Integers, Sequences, FiniteSets, TLC

VARIABLES
    genotype_matrix,      \* argument: rows of the simulated genome
    variable_positions,   \* argument: position of each row
    n_replicates,         \* argument: number of bootstrap replicates
    pc,                   \* control position inside the program
    i,                    \* replicate loop counter (line 84)
    j,                    \* window loop counter (line 88)
    start,                \* last drawn window start (line 90)
    variants,             \* row indices selected by the last window (line 93)
    bootstrapped_genome,  \* resampled genome of the current replicate
    abba_array, baba_array, bbaa_array, baaa_array, abaa_array, aaba_array,
    counts,               \* value returned by a direct call of site_patterns
    origin,               \* history: source row index of each resampled row
    draws,                \* history: window starts drawn in this replicate
    tape,                 \* random stream: every draw since the generator was seeded
    replay,               \* TRUE once the generator was re-seeded with the same seed
    tape_pos,             \* draws consumed since the re-seed
    first_result,         \* the result of the first of two calls
    permuted              \* TRUE once the rows of the matrix were reordered

vars == <<genotype_matrix, variable_positions, n_replicates, pc, i, j, start,
          variants, bootstrapped_genome, abba_array, baba_array, bbaa_array,
          baaa_array, abaa_array, aaba_array, counts, origin, draws, tape,
          replay, tape_pos, first_result, permuted>>

arrays == <<abba_array, baba_array, bbaa_array, baaa_array, abaa_array, aaba_array>>

(***************************************************************************)
(* Bounds of the model.                                                    *)
(***************************************************************************)
\* sites (rows) of the genome handed to the bootstrap driver
MaxSites == 2
\* rows of a matrix handed directly to site_patterns
MaxRows == 3
\* largest replicate count n_replicates
MaxReplicates == 2
\* windows per replicate: range(1000) in the source, scaled down
NumWindows == 2

(***************************************************************************)
(* Program constants.                                                      *)
(***************************************************************************)
\* end = start + 100_000
WindowLen == 100000

\* faulty variant: the exclusive bound is the whole genome length, not the length less
\* one window
RandintHighWholeGenome == 99900001 + WindowLen

\* np.random.randint(99_900_001) draws from 0 .. 99_900_000
RandintHigh == 99900001

(***************************************************************************)
(* Inputs.                                                                 *)
(***************************************************************************)
Row(a, b, c) == <<a, b, c>>

\* every 0/1 row
BinaryRows == {Row(a, b, c) : a \in {0, 1}, b \in {0, 1}, c \in {0, 1}}

\* rows with a dosage outside [0, 1]
WideRows == {Row(2, 1, 1), Row(1, 2, 0), Row(0, 1, 2), Row(-1, 1, 1), Row(2, 0, 0)}

RowChoices == BinaryRows \cup WideRows

\* sites of the driver's genome: a genotype row at a position.  Positions sit
\* on the edges of the windows that can be drawn and just outside them.
SiteChoices ==
    { [row |-> Row(0, 1, 1), pos |-> 0],
      [row |-> Row(1, 0, 1), pos |-> 100000],
      [row |-> Row(1, 1, 0), pos |-> 100000000],
      [row |-> Row(1, 0, 0), pos |-> 100001],
      [row |-> Row(0, 1, 0), pos |-> -1],
      [row |-> Row(0, 0, 1), pos |-> 100000001] }

\* window starts the generator returns in the model: both ends of randint's range
StartChoices == {0, RandintHigh - 1}

(***************************************************************************)
(* derived_allele_freq and site_patterns.                                  *)
(***************************************************************************)
RECURSIVE SumSeq(_)
SumSeq(s) == IF s = <<>> THEN 0 ELSE Head(s) + SumSeq(Tail(s))

\* genotype_matrix[:, taxon].sum(axis=1) / float(len(taxon)); exact for the
\* single-member lineages the program passes
derived_allele_freq(gm, taxon) ==
    [r \in 1..Len(gm) |->
        SumSeq([c \in 1..Len(taxon) |-> gm[r][taxon[c] + 1]]) \div Len(taxon)]

\* faulty variant: the ABBA product lacks its third factor
PatternSumsMissingFactor(p1, p2, p3) ==
    LET n == Len(p1)
        abba == SumSeq([r \in 1..n |-> (1 - p1[r]) * p2[r]])
        baba == SumSeq([r \in 1..n |-> p1[r] * (1 - p2[r]) * p3[r]])
        bbaa == SumSeq([r \in 1..n |-> p1[r] * p2[r] * (1 - p3[r])])
        baaa == SumSeq([r \in 1..n |-> p1[r] * (1 - p2[r]) * (1 - p3[r])])
        abaa == SumSeq([r \in 1..n |-> (1 - p1[r]) * p2[r] * (1 - p3[r])])
        aaba == SumSeq([r \in 1..n |-> (1 - p1[r]) * (1 - p2[r]) * p3[r]])
    IN <<abba, baba, bbaa, baaa, abaa, aaba>>

\* lines 51-57: the six elementwise products, each summed over the sites
PatternSums(p1, p2, p3) ==
    LET n == Len(p1)
        abba == SumSeq([r \in 1..n |-> (1 - p1[r]) * p2[r] * p3[r]])
        baba == SumSeq([r \in 1..n |-> p1[r] * (1 - p2[r]) * p3[r]])
        bbaa == SumSeq([r \in 1..n |-> p1[r] * p2[r] * (1 - p3[r])])
        baaa == SumSeq([r \in 1..n |-> p1[r] * (1 - p2[r]) * (1 - p3[r])])
        abaa == SumSeq([r \in 1..n |-> (1 - p1[r]) * p2[r] * (1 - p3[r])])
        aaba == SumSeq([r \in 1..n |-> (1 - p1[r]) * (1 - p2[r]) * p3[r]])
    IN <<abba, baba, bbaa, baaa, abaa, aaba>>

\* faulty variant: ABBA and BABA returned in each other's place
site_patterns_swapped(gm, p1_idx, p2_idx, p3_idx) ==
    LET sp == PatternSums(derived_allele_freq(gm, p1_idx),
                          derived_allele_freq(gm, p2_idx),
                          derived_allele_freq(gm, p3_idx))
    IN <<sp[2], sp[1], sp[3], sp[4], sp[5], sp[6]>>

\* faulty variant: the last site is left out of the sums
site_patterns_drop_last(gm, p1_idx, p2_idx, p3_idx) ==
    LET head == SubSeq(gm, 1, Len(gm) - 1)
    IN PatternSums(derived_allele_freq(head, p1_idx),
                   derived_allele_freq(head, p2_idx),
                   derived_allele_freq(head, p3_idx))

site_patterns(gm, p1_idx, p2_idx, p3_idx) ==
    PatternSums(derived_allele_freq(gm, p1_idx),
                derived_allele_freq(gm, p2_idx),
                derived_allele_freq(gm, p3_idx))

(***************************************************************************)
(* genotype_matrix_bootstrap.                                              *)
(***************************************************************************)
\* faulty variant: the window's end is exclusive
InWindowExclusiveEnd(s, p) == s <= p /\ p < s + WindowLen

\* (start <= variable_positions) & (variable_positions <= end), one element
InWindow(s, p) == s <= p /\ p <= s + WindowLen

\* np.where(mask)[0]: the indices of the positions in the window, ascending
RECURSIVE Where(_, _, _)
Where(s, vp, k) ==
    IF k > Len(vp) THEN <<>>
    ELSE IF InWindow(s, vp[k]) THEN <<k>> \o Where(s, vp, k + 1)
    ELSE Where(s, vp, k + 1)

\* faulty variant: the bound check is off by one
IndexErrorOffByOne(gm, v) == \E k \in 1..Len(v) : v[k] >= Len(gm)

\* genotype_matrix[variants, :] raises IndexError when an index is past the last row
IndexError(gm, v) == \E k \in 1..Len(v) : v[k] > Len(gm)

\* genotype_matrix[variants, :]
TakeRows(gm, v) == [k \in 1..Len(v) |-> gm[v[k]]]

InitLocals ==
    /\ i = 0
    /\ j = 0
    /\ start = 0
    /\ variants = <<>>
    /\ bootstrapped_genome = <<>>
    /\ abba_array = <<>> /\ baba_array = <<>> /\ bbaa_array = <<>>
    /\ baaa_array = <<>> /\ abaa_array = <<>> /\ aaba_array = <<>>
    /\ counts = <<>>
    /\ origin = <<>>
    /\ draws = <<>>
    /\ tape = <<>>
    /\ replay = FALSE
    /\ tape_pos = 0
    /\ first_result = <<>>
    /\ permuted = FALSE

\* the driver about to be called on a matrix with a parallel position vector
Init ==
    /\ \E n \in 0..MaxSites : \E sites \in [1..n -> SiteChoices] :
          /\ genotype_matrix = [k \in 1..n |-> sites[k].row]
          /\ variable_positions = [k \in 1..n |-> sites[k].pos]
    /\ n_replicates \in 0..MaxReplicates
    /\ pc = "call"
    /\ InitLocals

\* faulty variant: the result arrays outlive the call instead of starting empty
CallNoReset ==
    /\ pc = "call"
    /\ i' = 0
    /\ pc' = "for_i"
    /\ UNCHANGED <<genotype_matrix, variable_positions, n_replicates, j, start,
                   variants, bootstrapped_genome, abba_array, baba_array,
                   bbaa_array, baaa_array, abaa_array, aaba_array, counts, origin,
                   draws, tape, replay, tape_pos, first_result, permuted>>

\* lines 76-82: the six result arrays start empty
Call ==
    /\ pc = "call"
    /\ abba_array' = <<>> /\ baba_array' = <<>> /\ bbaa_array' = <<>>
    /\ baaa_array' = <<>> /\ abaa_array' = <<>> /\ aaba_array' = <<>>
    /\ i' = 0
    /\ pc' = "for_i"
    /\ UNCHANGED <<genotype_matrix, variable_positions, n_replicates, j, start,
                   variants, bootstrapped_genome, counts, origin, draws, tape,
                   replay, tape_pos, first_result, permuted>>

\* faulty variant: the genome is initialised once, outside the replicate loop
BeginReplicateNoReset ==
    /\ pc = "for_i"
    /\ i < n_replicates
    /\ origin' = <<>>
    /\ draws' = <<>>
    /\ j' = 0
    /\ pc' = "for_j"
    /\ UNCHANGED <<genotype_matrix, variable_positions, n_replicates, i, start,
                   variants, bootstrapped_genome, abba_array, baba_array,
                   bbaa_array, baaa_array, abaa_array, aaba_array, counts, tape,
                   replay, tape_pos, first_result, permuted>>

\* lines 84-86: next replicate, with a fresh empty genome
BeginReplicate ==
    /\ pc = "for_i"
    /\ i < n_replicates
    /\ bootstrapped_genome' = <<>>
    /\ origin' = <<>>
    /\ draws' = <<>>
    /\ j' = 0
    /\ pc' = "for_j"
    /\ UNCHANGED <<genotype_matrix, variable_positions, n_replicates, i, start,
                   variants, abba_array, baba_array, bbaa_array, baaa_array,
                   abaa_array, aaba_array, counts, tape, replay, tape_pos,
                   first_result, permuted>>

\* lines 88-97: one window with start s
WindowStep(s) ==
    /\ pc = "for_j"
    /\ j < NumWindows
    /\ start' = s
    /\ variants' = Where(s, variable_positions, 1)
    /\ IF IndexError(genotype_matrix, variants')
       THEN /\ pc' = "error"
            /\ UNCHANGED <<bootstrapped_genome, origin, draws, j>>
       ELSE /\ bootstrapped_genome' =
                  bootstrapped_genome \o TakeRows(genotype_matrix, variants')
            /\ origin' = origin \o variants'
            /\ draws' = Append(draws, s)
            /\ j' = j + 1
            /\ pc' = "for_j"
    /\ UNCHANGED <<genotype_matrix, variable_positions, n_replicates, i,
                   abba_array, baba_array, bbaa_array, baaa_array, abaa_array,
                   aaba_array, counts, first_result, permuted>>

\* line 90 with the process-global generator in an unknown state
Window ==
    /\ \E s \in StartChoices : WindowStep(s)
    /\ UNCHANGED <<tape, replay, tape_pos>>

\* faulty variant: BABA is appended to the ABBA array (a copy of line 105 left unedited)
StatsCopyPaste ==
    /\ pc = "for_j"
    /\ j = NumWindows
    /\ LET sp == site_patterns(bootstrapped_genome, <<0>>, <<1>>, <<2>>)
       IN /\ abba_array' = Append(abba_array, sp[1])
          /\ baba_array' = Append(abba_array, sp[2])
          /\ bbaa_array' = Append(bbaa_array, sp[3])
          /\ baaa_array' = Append(baaa_array, sp[4])
          /\ abaa_array' = Append(abaa_array, sp[5])
          /\ aaba_array' = Append(aaba_array, sp[6])
    /\ i' = i + 1
    /\ pc' = "for_i"
    /\ UNCHANGED <<genotype_matrix, variable_positions, n_replicates, j, start,
                   variants, bootstrapped_genome, counts, origin, draws, tape,
                   replay, tape_pos, first_result, permuted>>

\* faulty variant: a replicate whose genome has no rows is skipped, nothing is stored
StatsSkipEmpty ==
    /\ pc = "for_j"
    /\ j = NumWindows
    /\ LET sp == site_patterns(bootstrapped_genome, <<0>>, <<1>>, <<2>>)
           keep == bootstrapped_genome # <<>>
       IN /\ abba_array' = IF keep THEN Append(abba_array, sp[1]) ELSE abba_array
          /\ baba_array' = IF keep THEN Append(baba_array, sp[2]) ELSE baba_array
          /\ bbaa_array' = IF keep THEN Append(bbaa_array, sp[3]) ELSE bbaa_array
          /\ baaa_array' = IF keep THEN Append(baaa_array, sp[4]) ELSE baaa_array
          /\ abaa_array' = IF keep THEN Append(abaa_array, sp[5]) ELSE abaa_array
          /\ aaba_array' = IF keep THEN Append(aaba_array, sp[6]) ELSE aaba_array
    /\ i' = i + 1
    /\ pc' = "for_i"
    /\ UNCHANGED <<genotype_matrix, variable_positions, n_replicates, j, start,
                   variants, bootstrapped_genome, counts, origin, draws, tape,
                   replay, tape_pos, first_result, permuted>>

\* lines 99-110: count the site patterns of the assembled genome and store them
Stats ==
    /\ pc = "for_j"
    /\ j = NumWindows
    /\ LET sp == site_patterns(bootstrapped_genome, <<0>>, <<1>>, <<2>>)
       IN /\ abba_array' = Append(abba_array, sp[1])
          /\ baba_array' = Append(baba_array, sp[2])
          /\ bbaa_array' = Append(bbaa_array, sp[3])
          /\ baaa_array' = Append(baaa_array, sp[4])
          /\ abaa_array' = Append(abaa_array, sp[5])
          /\ aaba_array' = Append(aaba_array, sp[6])
    /\ i' = i + 1
    /\ pc' = "for_i"
    /\ UNCHANGED <<genotype_matrix, variable_positions, n_replicates, j, start,
                   variants, bootstrapped_genome, counts, origin, draws, tape,
                   replay, tape_pos, first_result, permuted>>

\* line 111
Return ==
    /\ pc = "for_i"
    /\ i >= n_replicates
    /\ pc' = "done"
    /\ UNCHANGED <<genotype_matrix, variable_positions, n_replicates, i, j, start,
                   variants, bootstrapped_genome, abba_array, baba_array,
                   bbaa_array, baaa_array, abaa_array, aaba_array, counts, origin,
                   draws, tape, replay, tape_pos, first_result, permuted>>

Next == Call \/ BeginReplicate \/ Window \/ Stats \/ Return

Spec == Init /\ [][Next]_vars

(***************************************************************************)
(* Two calls of the driver on the same inputs with the generator seeded    *)
(* alike: the second call's draws repeat the first call's.                 *)
(***************************************************************************)
\* sites used when the whole random stream is part of the state
RerunSiteChoices ==
    { [row |-> Row(0, 1, 1), pos |-> 0],
      [row |-> Row(1, 0, 1), pos |-> 100000000] }

InitTwoRuns ==
    /\ \E n \in 0..MaxSites : \E sites \in [1..n -> RerunSiteChoices] :
          /\ genotype_matrix = [k \in 1..n |-> sites[k].row]
          /\ variable_positions = [k \in 1..n |-> sites[k].pos]
    /\ n_replicates \in 0..MaxReplicates
    /\ pc = "call"
    /\ InitLocals

\* line 90, first run: the draw is whatever the seeded stream yields next
DrawFresh ==
    /\ ~replay
    /\ \E s \in StartChoices : WindowStep(s) /\ tape' = Append(tape, s)
    /\ UNCHANGED <<replay, tape_pos>>

\* line 90, second run: the same seed yields the same stream
DrawReplay ==
    /\ replay
    /\ tape_pos < Len(tape)
    /\ WindowStep(tape[tape_pos + 1])
    /\ tape_pos' = tape_pos + 1
    /\ UNCHANGED <<tape, replay>>

\* the caller keeps the returned arrays, seeds the generator as before and
\* calls the driver again with the same arguments (line 129, twice)
Rerun ==
    /\ pc = "done"
    /\ ~replay
    /\ first_result' = arrays
    /\ replay' = TRUE
    /\ tape_pos' = 0
    /\ pc' = "call"
    /\ UNCHANGED <<genotype_matrix, variable_positions, n_replicates, i, j, start,
                   variants, bootstrapped_genome, abba_array, baba_array,
                   bbaa_array, baaa_array, abaa_array, aaba_array, counts, origin,
                   draws, tape, permuted>>

NextTwoRuns ==
    Call \/ BeginReplicate \/ DrawFresh \/ DrawReplay \/ Stats \/ Return \/ Rerun

SpecTwoRuns == InitTwoRuns /\ [][NextTwoRuns]_vars

(***************************************************************************)
(* The driver called with a position vector that is not parallel to the    *)
(* matrix.                                                                 *)
(***************************************************************************)
MalformedRows == {Row(0, 1, 1), Row(1, 0, 1)}

\* one position some window covers, one position no window covers
MalformedPositions == {0, 100000001}

InitMalformed ==
    /\ \E n \in 0..MaxSites : genotype_matrix \in [1..n -> MalformedRows]
    /\ \E m \in 0..MaxSites : variable_positions \in [1..m -> MalformedPositions]
    /\ Len(variable_positions) # Len(genotype_matrix)
    /\ n_replicates \in 0..MaxReplicates
    /\ pc = "call"
    /\ InitLocals

SpecMalformed == InitMalformed /\ [][Next]_vars

(***************************************************************************)
(* site_patterns called directly, as a pure function of the matrix.        *)
(***************************************************************************)
InitSitePatterns ==
    /\ \E n \in 0..MaxRows : genotype_matrix \in [1..n -> RowChoices]
    /\ variable_positions = <<>>
    /\ n_replicates = 0
    /\ pc = "sp_input"
    /\ InitLocals

\* site_patterns(genotype_matrix) with the default lineages [0], [1], [2]
CallSitePatterns ==
    /\ pc = "sp_input"
    /\ counts' = site_patterns(genotype_matrix, <<0>>, <<1>>, <<2>>)
    /\ first_result' = counts'
    /\ pc' = "sp_done"
    /\ UNCHANGED <<genotype_matrix, variable_positions, n_replicates, i, j, start,
                   variants, bootstrapped_genome, abba_array, baba_array,
                   bbaa_array, baaa_array, abaa_array, aaba_array, origin, draws,
                   tape, replay, tape_pos, permuted>>

\* the matrix with rows k and k+1 exchanged
SwapAdjacent(gm, k) ==
    [r \in 1..Len(gm) |-> IF r = k THEN gm[k + 1] ELSE IF r = k + 1 THEN gm[k] ELSE gm[r]]

\* site_patterns called again on a row permutation of the matrix
\* (adjacent exchanges generate every permutation)
CallOnPermutation ==
    /\ pc = "sp_done"
    /\ \E k \in 1..(Len(genotype_matrix) - 1) :
          genotype_matrix' = SwapAdjacent(genotype_matrix, k)
    /\ counts' = site_patterns(genotype_matrix', <<0>>, <<1>>, <<2>>)
    /\ permuted' = TRUE
    /\ UNCHANGED <<variable_positions, n_replicates, pc, i, j, start, variants,
                   bootstrapped_genome, abba_array, baba_array, bbaa_array,
                   baaa_array, abaa_array, aaba_array, origin, draws, tape, replay,
                   tape_pos, first_result>>

NextSitePatterns == CallSitePatterns \/ CallOnPermutation

SpecSitePatterns == InitSitePatterns /\ [][NextSitePatterns]_vars

(***************************************************************************)
(* Properties.                                                             *)
(***************************************************************************)
\* the sum f[1] + ... + f[n]
RECURSIVE SumTo(_, _)
SumTo(f, n) == IF n = 0 THEN 0 ELSE f[n] + SumTo(f, n - 1)

\* the six site-pattern counts of a matrix, written out on its entries:
\* column 1 is P1, column 2 is P2, column 3 is P3
ExpectedCounts(gm) ==
    LET n == Len(gm)
    IN << SumTo([r \in 1..n |-> (1 - gm[r][1]) * gm[r][2] * gm[r][3]], n),
          SumTo([r \in 1..n |-> gm[r][1] * (1 - gm[r][2]) * gm[r][3]], n),
          SumTo([r \in 1..n |-> gm[r][1] * gm[r][2] * (1 - gm[r][3])], n),
          SumTo([r \in 1..n |-> gm[r][1] * (1 - gm[r][2]) * (1 - gm[r][3])], n),
          SumTo([r \in 1..n |-> (1 - gm[r][1]) * gm[r][2] * (1 - gm[r][3])], n),
          SumTo([r \in 1..n |-> (1 - gm[r][1]) * (1 - gm[r][2]) * gm[r][3]], n) >>

\* the indices of the sites whose position lies in the closed window [s, s + 100000]
SitesInWindow(s) ==
    {r \in 1..Len(variable_positions) :
        s <= variable_positions[r] /\ variable_positions[r] <= s + 100000}

\* the rows of the sites in the window that starts at s, in row order
WindowRows(s) ==
    LET idx == [k \in 1..Len(variable_positions) |-> k]
        keep == SelectSeq(idx, LAMBDA k : k \in SitesInWindow(s))
    IN [k \in 1..Len(keep) |-> genotype_matrix[keep[k]]]

\* the row selections of the windows that start at ds[1], ds[2], ..., one after another
RECURSIVE ConcatWindows(_)
ConcatWindows(ds) ==
    IF ds = <<>> THEN <<>> ELSE WindowRows(Head(ds)) \o ConcatWindows(Tail(ds))

\* the entry each of the six arrays holds for replicate k
EntriesAt(k) == [a \in 1..6 |-> arrays[a][k]]

\* ---- C1 ----
C1_Lengths ==
    /\ \A a \in 1..6 : Len(arrays[a]) = i
    /\ i <= n_replicates
    /\ pc = "done" => i = n_replicates

C1_Step ==
    /\ (pc = "for_j" /\ pc' = "for_i") =>
          arrays' = [a \in 1..6 |->
                        Append(arrays[a], ExpectedCounts(bootstrapped_genome)[a])]
    /\ ~(pc = "for_j" /\ pc' = "for_i") => arrays' = arrays

\* C1: the six arrays always have length i, the number of replicates finished,
\* and length n_replicates when the driver returns; finishing a replicate appends
\* that replicate's six counts and no other step changes an array, so entry k is
\* the statistic of replicate k.
C1_ArrayLengths == [](C1_Lengths) /\ [][C1_Step]_vars

C1_Witness ==
    /\ pc = "done"
    /\ n_replicates >= 2
    /\ Len(abba_array) = n_replicates
    /\ abba_array[1] # abba_array[2]

\* ---- C2 ----
C2_Step ==
    (pc = "for_j" /\ j' = j + 1) =>
        LET sel == SitesInWindow(start')
            old == Len(bootstrapped_genome)
            added == Len(bootstrapped_genome') - old
        IN /\ added = Cardinality(sel)
           /\ SubSeq(bootstrapped_genome', 1, old) = bootstrapped_genome
           /\ Len(variants') = added
           /\ {variants'[k] : k \in 1..added} = sel
           /\ \A k \in 1..(added - 1) : variants'[k] < variants'[k + 1]
           /\ \A k \in 1..added :
                 bootstrapped_genome'[old + k] = genotype_matrix[variants'[k]]

\* C2: a window with start s appends exactly the rows whose position p satisfies
\* s <= p <= s + 100000, both ends included, each once, in increasing row index,
\* after the rows already in the resampled genome.
C2_WindowSelection == [][C2_Step]_vars

C2_Witness ==
    /\ pc = "for_j"
    /\ j >= 1
    /\ Len(variants) = 2
    /\ Len(bootstrapped_genome) >= 2
    /\ variable_positions[variants[1]] = start
    /\ variable_positions[variants[2]] = start + 100000

\* ---- C3 ----
\* C3: inside a replicate the resampled genome is the concatenation, in draw
\* order, of the selections of the windows drawn in this replicate so far; the
\* counts are stored once per replicate, after NumWindows windows, and are the
\* counts of exactly that genome.
C3_FreshGenome ==
    /\ pc = "for_j" =>
          /\ Len(draws) = j
          /\ j <= NumWindows
          /\ bootstrapped_genome = ConcatWindows(draws)
    /\ (pc \in {"for_i", "done"} /\ i > 0) =>
          /\ j = NumWindows
          /\ Len(draws) = NumWindows
          /\ bootstrapped_genome = ConcatWindows(draws)
          /\ Len(abba_array) = i
          /\ EntriesAt(i) = ExpectedCounts(ConcatWindows(draws))

C3_Witness ==
    /\ pc = "for_i"
    /\ i >= 2
    /\ Len(abba_array) >= 2
    /\ abba_array[1] > 0
    /\ bootstrapped_genome # <<>>
    /\ abba_array[2] = 0

\* ---- C4 ----
ExampleMatrix == <<Row(0, 1, 1), Row(1, 0, 1), Row(1, 1, 0)>>

\* C4: site_patterns returns (ABBA, BABA, BBAA, BAAA, ABAA, AABA) in this order,
\* each the sum over the rows of its product of f and (1 - f) factors, unclamped;
\* the matrix [[0,1,1],[1,0,1],[1,1,0]] gives (1, 1, 1, 0, 0, 0).
C4_PatternSums ==
    pc = "sp_done" =>
        /\ counts = ExpectedCounts(genotype_matrix)
        /\ genotype_matrix = ExampleMatrix => counts = <<1, 1, 1, 0, 0, 0>>

C4_Witness ==
    /\ pc = "sp_done"
    /\ ~permuted
    /\ genotype_matrix = ExampleMatrix
    /\ counts = <<1, 1, 1, 0, 0, 0>>

\* ---- C5 ----
C5_Step ==
    (pc = "for_j" /\ j = NumWindows /\ bootstrapped_genome = <<>>) =>
        /\ pc' = "for_i"
        /\ i' = i + 1
        /\ \A a \in 1..6 : arrays'[a] = Append(arrays[a], 0)

\* C5: a replicate whose windows selected no row, so that site_patterns runs on a
\* matrix of zero rows, stores 0 in each of the six arrays and goes on.
C5_EmptyGenome == [][C5_Step]_vars

C5_Witness ==
    /\ pc = "for_i"
    /\ i >= 1
    /\ genotype_matrix # <<>>
    /\ bootstrapped_genome = <<>>
    /\ Len(abba_array) = i
    /\ EntriesAt(i) = <<0, 0, 0, 0, 0, 0>>

\* ---- C6 ----
\* C6: site_patterns called on any row permutation of a matrix returns the six
\* counts it returned for the matrix as first given.
C6_RowOrder == pc = "sp_done" => counts = first_result

C6_Witness ==
    /\ pc = "sp_done"
    /\ permuted
    /\ Len(genotype_matrix) >= 3
    /\ genotype_matrix[1] # genotype_matrix[2]
    /\ genotype_matrix[2] # genotype_matrix[3]
    /\ genotype_matrix[1] # genotype_matrix[3]
    /\ counts[1] # counts[2]

\* ---- C7 ----
IsBinary(gm) == \A r \in 1..Len(gm) : gm[r] \in BinaryRows

\* C7: for a 0/1 matrix each count lies in 0 .. number of rows, and the six counts
\* add up to the number of rows that are neither all 0 nor all 1.
C7_BinaryBounds ==
    (pc = "sp_done" /\ IsBinary(genotype_matrix)) =>
        /\ \A a \in 1..6 : counts[a] >= 0 /\ counts[a] <= Len(genotype_matrix)
        /\ SumTo(counts, 6) =
              Cardinality({r \in 1..Len(genotype_matrix) :
                              genotype_matrix[r] \notin {Row(0, 0, 0), Row(1, 1, 1)}})

C7_Witness ==
    /\ pc = "sp_done"
    /\ IsBinary(genotype_matrix)
    /\ Len(genotype_matrix) = 3
    /\ genotype_matrix[1] = Row(1, 1, 1)
    /\ SumTo(counts, 6) = 2

\* ---- C8 ----
\* C8: a second call on the same matrix, positions and replicate count, with the
\* generator seeded as for the first call, returns the six arrays the first call
\* returned.
C8_Deterministic == (pc = "done" /\ replay) => arrays = first_result

C8_Witness ==
    /\ pc = "done"
    /\ replay
    /\ n_replicates >= 2
    /\ Len(abba_array) >= 2
    /\ abba_array[1] # abba_array[2]

\* ---- C9 ----
\* C9 as stated: with a position vector whose length differs from the matrix's
\* row count the driver never returns.
C9_Original == Len(variable_positions) # Len(genotype_matrix) => pc # "done"

\* C9 amended: the call fails exactly when a window selects a position index past
\* the matrix's last row, which needs a position vector longer than the matrix; a
\* shorter (or empty) position vector never fails, and a call that does not fail
\* returns six arrays of length n_replicates.
C9_Amended ==
    /\ pc = "error" =>
          /\ Len(variable_positions) > Len(genotype_matrix)
          /\ \E k \in 1..Len(variants) : variants[k] > Len(genotype_matrix)
    /\ pc # "error" => \A k \in 1..Len(variants) : variants[k] <= Len(genotype_matrix)
    /\ Len(variable_positions) < Len(genotype_matrix) => pc # "error"
    /\ pc = "done" => \A a \in 1..6 : Len(arrays[a]) = n_replicates

C9_Witness ==
    /\ pc = "done"
    /\ variable_positions = <<>>
    /\ genotype_matrix # <<>>
    /\ n_replicates >= 1
    /\ \A a \in 1..6 : Len(arrays[a]) = n_replicates

\* ---- C10 ----
InGenome(p) == 0 <= p /\ p <= 100000000

\* C10: every row of the resampled genome is a copy of an original row whose
\* position lies in 0 .. 100,000,000, and the counts stored for a replicate are
\* the counts of those rows; a site outside that range is never selected.
C10_PositionRange ==
    /\ Len(origin) = Len(bootstrapped_genome)
    /\ \A k \in 1..Len(origin) :
          /\ origin[k] \in 1..Len(genotype_matrix)
          /\ bootstrapped_genome[k] = genotype_matrix[origin[k]]
          /\ InGenome(variable_positions[origin[k]])
    /\ (pc \in {"for_i", "done"} /\ i > 0) =>
          EntriesAt(i) = ExpectedCounts([k \in 1..Len(origin) |-> genotype_matrix[origin[k]]])

\* a site inside the range taken twice into one genome, beside a site out of range
C10_Witness ==
    /\ \E a \in 1..Len(origin) : \E b \in 1..Len(origin) : a < b /\ origin[a] = origin[b]
    /\ \E r \in 1..Len(variable_positions) : ~InGenome(variable_positions[r])

====
